---- MODULE Spec2Model ----
(***************************************************************************)
(* Model of make_drug_table (scripts/read_data.py): the identifier pass    *)
(* that associates drug names with RXCUI codes, and the class pass that    *)
(* associates RXCUI codes with drug classes and their descriptions.        *)
(*                                                                         *)
(* A Python string is modelled as a sequence of one-character strings, so  *)
(* that split, join, str and float are computed character by character.    *)
(* A DataFrame is a sequence of records, one record per row.               *)
(***************************************************************************)
EXTENDS Integers, Sequences, FiniteSets, TLC

VARIABLES
    isdir,              \* os.path.isdir(data_dir)
    present,            \* the feather files that exist in data_dir
    disk,               \* the contents of the five feather files
    pc,                 \* position in make_drug_table
    idx,                \* the loop variable of the running pass
    drugnames,          \* the drugnames DataFrame
    rxnorm,             \* the rxnorm DataFrame
    puf,                \* the puf DataFrame
    drug_major_class,   \* the drug_major_class DataFrame
    drug_class,         \* the drug_class DataFrame
    looked,             \* the values of displit[0] of the last row, by name column
    n_missing,          \* number of rows without an RXCUI code
    written             \* the rows of drugnames_withclasses.feather

vars == <<isdir, present, disk, pc, idx, drugnames, rxnorm, puf,
          drug_major_class, drug_class, looked, n_missing, written>>

----------------------------------------------------------------------------
(* Bounds of the model.                                                    *)

\* characters of a row's generic and brand name together
MaxNameLen == 4
\* rows of the rxnorm table
MaxReg == 2
\* rows of the puf table
MaxPuf == 2
\* rows of the drugnames table
MaxRows == 2

----------------------------------------------------------------------------
(* Python strings.                                                         *)

Range(s) == {s[i] : i \in 1..Len(s)}

\* all sequences over S of length at most n
SeqUpTo(S, n) == UNION {[1..k -> S] : k \in 0..n}

\* the characters of the model in code point order
CharOrder == <<" ", ".", "/", "0", "1", "2", "3", "4", "5", "6", "7", "8", "9",
               "A", "B", "N", "a", "b", "x", "y", "|">>

CharRank(c) == CHOOSE i \in 1..Len(CharOrder) : CharOrder[i] = c

\* s < t for Python strings
RECURSIVE StrLess(_, _)
StrLess(s, t) ==
    IF t = <<>> THEN FALSE
    ELSE IF s = <<>> THEN TRUE
    ELSE IF s[1] = t[1] THEN StrLess(Tail(s), Tail(t))
    ELSE CharRank(s[1]) < CharRank(t[1])

\* str.lower()
Lower(s) == [i \in 1..Len(s) |-> IF s[i] = "A" THEN "a"
                                  ELSE IF s[i] = "B" THEN "b" ELSE s[i]]

\* str.strip()
RECURSIVE Strip(_)
Strip(s) ==
    IF s = <<>> THEN s
    ELSE IF s[1] = " " THEN Strip(Tail(s))
    ELSE IF s[Len(s)] = " " THEN Strip(SubSeq(s, 1, Len(s) - 1))
    ELSE s

\* str.split(sep) for a one-character separator
RECURSIVE Split(_, _)
Split(s, sep) ==
    IF \A i \in 1..Len(s) : s[i] # sep THEN <<s>>
    ELSE LET i == CHOOSE j \in 1..Len(s) :
                      s[j] = sep /\ \A k \in 1..(j - 1) : s[k] # sep
         IN  <<SubSeq(s, 1, i - 1)>> \o Split(SubSeq(s, i + 1, Len(s)), sep)

\* sep.join(xs)
RECURSIVE Join(_, _)
Join(sep, xs) ==
    IF xs = <<>> THEN <<>>
    ELSE IF Len(xs) = 1 THEN xs[1]
    ELSE xs[1] \o <<sep>> \o Join(sep, Tail(xs))

Digits == <<"0", "1", "2", "3", "4", "5", "6", "7", "8", "9">>

IsDigit(c) == \E d \in 1..10 : Digits[d] = c

DigitVal(c) == (CHOOSE d \in 1..10 : Digits[d] = c) - 1

\* str(n) for an integer n >= 0
RECURSIVE StrOfInt(_)
StrOfInt(n) ==
    IF n < 10 THEN <<Digits[n + 1]>>
    ELSE StrOfInt(n \div 10) \o <<Digits[(n % 10) + 1]>>

RECURSIVE DigitsVal(_)
DigitsVal(s) ==
    IF s = <<>> THEN 0
    ELSE 10 * DigitsVal(SubSeq(s, 1, Len(s) - 1)) + DigitVal(s[Len(s)])

AllDigits(s) == \A i \in 1..Len(s) : IsDigit(s[i])

\* float(s) succeeds: digits, optionally followed by a point and digits
IsFloat(s) ==
    LET p == Split(s, ".")
    IN  /\ Len(p) <= 2
        /\ \A k \in 1..Len(p) : AllDigits(p[k])
        /\ \E k \in 1..Len(p) : p[k] # <<>>

\* float(s) == n for the number n
FloatEquals(s, n) ==
    LET p == Split(s, ".")
    IN  /\ IsFloat(s)
        /\ DigitsVal(p[1]) = n
        /\ Len(p) = 2 => \A i \in 1..Len(p[2]) : p[2][i] = "0"

----------------------------------------------------------------------------
(* pandas and numpy.                                                       *)

\* Series.unique(): the distinct values in order of first appearance
RECURSIVE Unique(_)
Unique(xs) ==
    IF xs = <<>> THEN <<>>
    ELSE LET init == Unique(SubSeq(xs, 1, Len(xs) - 1))
             last == xs[Len(xs)]
         IN  IF last \in Range(init) THEN init ELSE Append(init, last)

\* the strings of the set S in ascending order
RECURSIVE SortStrings(_)
SortStrings(S) ==
    IF S = {} THEN <<>>
    ELSE LET m == CHOOSE x \in S : \A y \in S \ {x} : StrLess(x, y)
         IN  <<m>> \o SortStrings(S \ {m})

\* the distinct values in the order in which they are first met
NpUniqueAsMet(xs) == Unique(xs)

\* np.unique(xs): the distinct values, sorted
NpUnique(xs) == SortStrings(Range(xs))

\* np.hstack(xss)
RECURSIVE HStack(_)
HStack(xss) == IF xss = <<>> THEN <<>> ELSE xss[1] \o HStack(Tail(xss))

----------------------------------------------------------------------------
(* The tables.                                                             *)

FileNames == {"drugnames", "puf", "rxnorm", "drug_major_class", "drug_class"}

\* a cell of a column that does not exist yet, or of a row not yet assigned
NaN == <<"NaN">>

\* the value of the RXCUI column set when the column is made, and the value
\* written for a drug without any RXCUI code
NoRxcui == <<"0", ".", "0">>

\* the value written for a drug without any class
NoClass == <<"0">>

\* download_partd: the drug names are stripped, then made lowercase
PartdName(raw) == Lower(Strip(raw))

\* download_rxnorm: the names are made lowercase
RxnormStr(raw) == Lower(raw)

\* a row of drugnames.feather
NameRow(generic, brand) ==
    [drugname_brand |-> brand, drugname_generic |-> generic]

\* the drug names of the model: all names over a letter in both cases,
\* the space and the slash, as download_partd stores them
RawNameChars == {"A", "a", " ", "/"}

Names == {PartdName(raw) : raw \in SeqUpTo(RawNameChars, MaxNameLen)}

NamePairs == {p \in Names \X Names : Len(p[1]) + Len(p[2]) <= MaxNameLen}

\* the rows of rxnorm.feather of the model
RxnormRows ==
    {[RXCUI |-> n, STR |-> RxnormStr(raw)] :
        n \in {1, 10}, raw \in {<<>>, <<"A">>, <<"a">>}}

\* the class codes and the class descriptions of the model
Codes == {<<"A">>, <<"B">>}
MajorDescs == {<<"x">>, <<"y">>}
MinorDescs == {<<"x">>, <<"N", "/", "A">>}

\* the rows of puf.feather of the model
PufRows ==
    {[RXNORM_RXCUI |-> n, DRUG_MAJOR_CLASS |-> a, DRUG_CLASS |-> b] :
        n \in {0, 1, 10}, a \in Codes, b \in Codes}

MajorRow(c, d) == [drug_major_class |-> c, drug_major_class_desc |-> d]
MinorRow(c, d) == [drug_class |-> c, drug_class_desc |-> d]

\* the class tables of the model: every code at most once
MajorTables ==
    {ta \o tb : ta \in {<<>>} \cup {<<MajorRow(<<"A">>, d)>> : d \in MajorDescs},
                tb \in {<<>>} \cup {<<MajorRow(<<"B">>, d)>> : d \in MajorDescs}}

MinorTables ==
    {ta \o tb : ta \in {<<>>} \cup {<<MinorRow(<<"A">>, d)>> : d \in MinorDescs},
                tb \in {<<>>} \cup {<<MinorRow(<<"B">>, d)>> : d \in MinorDescs}}

\* one table of each kind, used where another table is the one that varies
SomeRxnorm == <<[RXCUI |-> 1, STR |-> <<"a">>], [RXCUI |-> 10, STR |-> <<"a", "a">>]>>

SomePuf ==
    <<[RXNORM_RXCUI |-> 10, DRUG_MAJOR_CLASS |-> <<"B">>, DRUG_CLASS |-> <<"A">>],
      [RXNORM_RXCUI |-> 1, DRUG_MAJOR_CLASS |-> <<"A">>, DRUG_CLASS |-> <<"B">>]>>

SomeMajor == <<MajorRow(<<"A">>, <<"x">>), MajorRow(<<"B">>, <<"y">>)>>

SomeMinor == <<MinorRow(<<"A">>, <<"x">>), MinorRow(<<"B">>, <<"N", "/", "A">>)>>

\* drug names that resolve against SomeRxnorm to no, one and two RXCUI codes
SomePairs ==
    {<<<<>>, <<>>>>,
     <<<<"a">>, <<>>>>,
     <<<<"a">>, <<"a">>>>,
     <<<<"a", "/", "a", "a">>, <<>>>>,
     <<<<"a", "a", "/", "a">>, <<>>>>}

\* puf tables with one and with two RXCUI codes, in both orders of the classes
SomePufs ==
    {SomePuf,
     <<[RXNORM_RXCUI |-> 1, DRUG_MAJOR_CLASS |-> <<"B">>, DRUG_CLASS |-> <<"B">>],
       [RXNORM_RXCUI |-> 1, DRUG_MAJOR_CLASS |-> <<"A">>, DRUG_CLASS |-> <<"A">>]>>,
     <<[RXNORM_RXCUI |-> 1, DRUG_MAJOR_CLASS |-> <<"A">>, DRUG_CLASS |-> <<"B">>]>>}

Disk(names, reg, prof, major, minor) ==
    [drugnames |-> names, rxnorm |-> reg, puf |-> prof,
     drug_major_class |-> major, drug_class |-> minor]

\* the state when the assertions of make_drug_table are reached
Begin(dir, files, contents) ==
    /\ isdir = dir
    /\ present = files
    /\ disk = contents
    /\ pc = "start"
    /\ idx = 0
    /\ drugnames = <<>>
    /\ rxnorm = <<>>
    /\ puf = <<>>
    /\ drug_major_class = <<>>
    /\ drug_class = <<>>
    /\ looked = [drugname_generic |-> <<>>, drugname_brand |-> <<>>]
    /\ n_missing = 0
    /\ written = <<>>

\* every drug name against every rxnorm table
InitNames ==
    \E p \in NamePairs, reg \in SeqUpTo(RxnormRows, MaxReg) :
        Begin(TRUE, FileNames,
              Disk(<<NameRow(p[1], p[2])>>, reg, SomePuf, SomeMajor, SomeMinor))

\* every puf table
InitPuf ==
    \E p \in SomePairs, prof \in SeqUpTo(PufRows, MaxPuf) :
        Begin(TRUE, FileNames,
              Disk(<<NameRow(p[1], p[2])>>, SomeRxnorm, prof, SomeMajor, SomeMinor))

\* every pair of class tables
InitClassTables ==
    \E p \in SomePairs, prof \in SomePufs, major \in MajorTables, minor \in MinorTables :
        Begin(TRUE, FileNames,
              Disk(<<NameRow(p[1], p[2])>>, SomeRxnorm, prof, major, minor))

\* files that are missing or empty
InitFiles ==
    \/ Begin(FALSE, {}, Disk(<<>>, <<>>, <<>>, <<>>, <<>>))
    \/ \E files \in SUBSET FileNames :
       \E names \in {<<>>, <<NameRow(<<"a", "/", "a", "a">>, <<>>)>>},
          reg \in {<<>>, SomeRxnorm}, prof \in {<<>>, SomePuf},
          major \in {<<>>, SomeMajor}, minor \in {<<>>, SomeMinor} :
           /\ "drugnames" \notin files => names = <<>>
           /\ "rxnorm" \notin files => reg = <<>>
           /\ "puf" \notin files => prof = <<>>
           /\ "drug_major_class" \notin files => major = <<>>
           /\ "drug_class" \notin files => minor = <<>>
           /\ Begin(TRUE, files, Disk(names, reg, prof, major, minor))

\* tables of drug names of every length
InitRows ==
    \E names \in SeqUpTo({NameRow(p[1], p[2]) : p \in SomePairs}, MaxRows) :
        Begin(TRUE, FileNames, Disk(names, SomeRxnorm, SomePuf, SomeMajor, SomeMinor))

Init == InitNames \/ InitPuf \/ InitClassTables \/ InitFiles \/ InitRows

----------------------------------------------------------------------------
(* The identifier pass.                                                    *)

\* the rows of table whose column col holds the value v
RowsWith(table, col, v) ==
    LET Test(r) == r[col] = v IN SelectSeq(table, Test)

\* the column col of the rows of table
Column(table, col) == [i \in 1..Len(table) |-> table[i][col]]

\* displit[0] for every part of the name d, in the order of the loop
Keys(d) ==
    LET dsplit == Split(d, "/")
    IN  [i \in 1..Len(dsplit) |-> Split(dsplit[i], " ")[1]]

\* the values looked up for a row: the generic name first, then the brand name
RowKeys(row) == Keys(row.drugname_generic) \o Keys(row.drugname_brand)

IsPrefix(p, s) == Len(p) <= Len(s) /\ SubSeq(s, 1, Len(p)) = p

\* the codes of the rows whose STR is the beginning of key
RxcuiOfPrefix(reg, key) ==
    LET Test(r) == IsPrefix(r.STR, key)
    IN  Unique(Column(SelectSeq(reg, Test), "RXCUI"))

\* v["RXCUI"].unique() for v = rxnorm[rxnorm["STR"] == key]
RxcuiOf(reg, key) == Unique(Column(RowsWith(reg, "STR", key), "RXCUI"))

\* the list rxcui after the loops over the names of a row
RECURSIVE RxcuiList(_, _)
RxcuiList(reg, keys) ==
    IF keys = <<>> THEN <<>>
    ELSE RxcuiOf(reg, keys[1]) \o RxcuiList(reg, Tail(keys))

\* rxcui_str that is left empty when there is no code
RxcuiStrEmpty(rxcui) == Join("|", [i \in 1..Len(rxcui) |-> StrOfInt(rxcui[i])])

\* rxcui_str
RxcuiStr(rxcui) ==
    IF Len(rxcui) > 1
    THEN Join("|", [i \in 1..Len(rxcui) |-> StrOfInt(rxcui[i])])
    ELSE IF Len(rxcui) = 1 THEN StrOfInt(rxcui[1])
    ELSE NoRxcui

\* a row of the drugnames DataFrame after the RXCUI column is made
LoadedRow(r) ==
    [drugname_brand |-> r.drugname_brand, drugname_generic |-> r.drugname_generic,
     RXCUI |-> NoRxcui,
     drug_major_class |-> NaN, dmc_string |-> NaN,
     drug_class |-> NaN, dc_string |-> NaN,
     dmc_name |-> NaN, dc_name |-> NaN]

\* an assertion on the data directory or on one of its files fails
AssertFail ==
    /\ pc = "start"
    /\ ~isdir \/ present # FileNames
    /\ pc' = "aborted"
    /\ UNCHANGED <<isdir, present, disk, idx, drugnames, rxnorm, puf,
                   drug_major_class, drug_class, looked, n_missing, written>>

\* the files are read without the assertions
LoadUnchecked ==
    /\ pc = "start"
    /\ drugnames' = [i \in 1..Len(disk.drugnames) |-> LoadedRow(disk.drugnames[i])]
    /\ puf' = disk.puf
    /\ rxnorm' = disk.rxnorm
    /\ drug_major_class' = disk.drug_major_class
    /\ drug_class' = disk.drug_class
    /\ pc' = "rxcui"
    /\ idx' = 1
    /\ UNCHANGED <<isdir, present, disk, looked, n_missing, written>>

\* the files are read and the RXCUI column is made
Load ==
    /\ pc = "start"
    /\ isdir /\ present = FileNames
    /\ drugnames' = [i \in 1..Len(disk.drugnames) |-> LoadedRow(disk.drugnames[i])]
    /\ puf' = disk.puf
    /\ rxnorm' = disk.rxnorm
    /\ drug_major_class' = disk.drug_major_class
    /\ drug_class' = disk.drug_class
    /\ pc' = "rxcui"
    /\ idx' = 1
    /\ UNCHANGED <<isdir, present, disk, looked, n_missing, written>>

\* one pass of the first loop over drugnames.index
ResolveRow ==
    /\ pc = "rxcui"
    /\ idx <= Len(drugnames)
    /\ LET rxcui_str == RxcuiStr(RxcuiList(rxnorm, RowKeys(drugnames[idx])))
       IN  /\ looked' = [drugname_generic |-> Keys(drugnames[idx].drugname_generic),
                         drugname_brand |-> Keys(drugnames[idx].drugname_brand)]
           /\ drugnames' = [drugnames EXCEPT ![idx].RXCUI = rxcui_str]
    /\ idx' = idx + 1
    /\ UNCHANGED <<isdir, present, disk, pc, rxnorm, puf, drug_major_class,
                   drug_class, n_missing, written>>

\* the drugs without an RXCUI code are counted and their fraction is printed;
\* the columns for the classes are added (the RXCUI cells are strings already,
\* so astype(str) leaves them as they are)
Report ==
    /\ pc = "rxcui"
    /\ idx > Len(drugnames)
    /\ n_missing' = Cardinality({i \in 1..Len(drugnames) : drugnames[i].RXCUI = NoRxcui})
    /\ IF Len(drugnames) = 0
       THEN \* n_missing/len(drugnames): ZeroDivisionError
            /\ pc' = "fault"
            /\ UNCHANGED <<drugnames, idx>>
       ELSE /\ drugnames' = [i \in 1..Len(drugnames) |->
                                [drugnames[i] EXCEPT !.drug_major_class = <<>>,
                                                     !.dmc_string = <<>>,
                                                     !.drug_class = <<>>,
                                                     !.dc_string = <<>>]]
            /\ pc' = "classes"
            /\ idx' = 1
    /\ UNCHANGED <<isdir, present, disk, rxnorm, puf, drug_major_class,
                   drug_class, looked, written>>

----------------------------------------------------------------------------
(* The class pass.                                                         *)

\* r = puf[puf["RXNORM_RXCUI"] == np.float(rxcui)]
PufOf(prof, rxcui) ==
    LET Test(r) == FloatEquals(rxcui, r.RXNORM_RXCUI) IN SelectSeq(prof, Test)

\* the list dmc (col DRUG_MAJOR_CLASS) or dc (col DRUG_CLASS) after the loop
\* over the RXCUI codes of a row
RECURSIVE ClassList(_, _, _)
ClassList(prof, drug_rxcui, col) ==
    IF drug_rxcui = <<>> THEN <<>>
    ELSE Unique(Column(PufOf(prof, drug_rxcui[1]), col))
             \o ClassList(prof, Tail(drug_rxcui), col)

\* the cell for the classes dmc or dc, after np.unique
ClassCell(classes) ==
    IF Len(classes) # 0 THEN Join("|", classes) ELSE NoClass

\* the descriptions of the classes: np.hstack of the rows of the class table
\* for each class
ClassNames(table, col, desc, classes) ==
    HStack([i \in 1..Len(classes) |-> Column(RowsWith(table, col, classes[i]), desc)])

\* the cell for the descriptions of the classes dmc or dc
NameCell(table, col, desc, classes) ==
    IF Len(classes) # 0
    THEN Join("|", ClassNames(table, col, desc, classes))
    ELSE NoClass

\* one pass of the second loop over drugnames.index
ClassRow ==
    /\ pc = "classes"
    /\ idx <= Len(drugnames)
    /\ LET drug_rxcui == Split(drugnames[idx].RXCUI, "|")
           dmc == NpUnique(ClassList(puf, drug_rxcui, "DRUG_MAJOR_CLASS"))
           dc == NpUnique(ClassList(puf, drug_rxcui, "DRUG_CLASS"))
       IN  IF \E i \in 1..Len(drug_rxcui) : ~IsFloat(drug_rxcui[i])
           THEN \* np.float(rxcui): ValueError
                /\ pc' = "fault"
                /\ UNCHANGED <<drugnames, idx>>
           ELSE /\ drugnames' =
                      [drugnames EXCEPT
                          ![idx].drug_major_class = ClassCell(dmc),
                          ![idx].dmc_name =
                              NameCell(drug_major_class, "drug_major_class",
                                       "drug_major_class_desc", dmc),
                          ![idx].drug_class = ClassCell(dc),
                          ![idx].dc_name =
                              NameCell(drug_class, "drug_class", "drug_class_desc", dc)]
                /\ idx' = idx + 1
                /\ pc' = pc
    /\ UNCHANGED <<isdir, present, disk, rxnorm, puf, drug_major_class,
                   drug_class, looked, n_missing, written>>

\* the results are written to drugnames_withclasses.feather
WriteResults ==
    /\ pc = "classes"
    /\ idx > Len(drugnames)
    /\ written' = drugnames
    /\ pc' = "done"
    /\ UNCHANGED <<isdir, present, disk, idx, drugnames, rxnorm, puf,
                   drug_major_class, drug_class, looked, n_missing>>

Next == AssertFail \/ Load \/ ResolveRow \/ Report \/ ClassRow \/ WriteResults

Spec == Init /\ [][Next]_vars

----------------------------------------------------------------------------
(* Positions of the rows.                                                  *)

\* the identifier pass has written the RXCUI cell of row i
Resolved(i) ==
    /\ i \in 1..Len(drugnames)
    /\ \/ pc = "rxcui" /\ i < idx
       \/ pc \in {"classes", "done"}

\* the class pass has written the class cells of row i
Classed(i) ==
    /\ i \in 1..Len(drugnames)
    /\ \/ pc = "classes" /\ i < idx
       \/ pc = "done"

----------------------------------------------------------------------------
(* What the claims speak of.                                               *)

NameColumns == {"drugname_generic", "drugname_brand"}

\* the values of a cell that holds values joined with "|"
CellValues(cell) == Split(cell, "|")

NoRepeats(xs) == Cardinality(Range(xs)) = Len(xs)

\* the positions at which a part of the name d starts: the first position and
\* every position after a slash
PartStarts(d) == {p \in 1..(Len(d) + 1) : p = 1 \/ d[p - 1] = "/"}

\* the text of d from position p up to the next character of stops
TextUpTo(d, p, stops) ==
    LET q == CHOOSE j \in (p - 1)..Len(d) :
                 /\ \A k \in p..j : d[k] \notin stops
                 /\ j = Len(d) \/ d[j + 1] \in stops
    IN  SubSeq(d, p, q)

\* the candidate tokens of a name: for each part, its text before the first space
CandidateTokens(d) == {TextUpTo(d, p, {" ", "/"}) : p \in PartStarts(d)}

RowTokens(row) ==
    CandidateTokens(row.drugname_generic) \cup CandidateTokens(row.drugname_brand)

\* the RXCUI codes, as strings, of the rxnorm rows whose STR is in tokens
CodesNamed(tokens) ==
    {StrOfInt(rxnorm[k].RXCUI) : k \in {j \in 1..Len(rxnorm) : rxnorm[j].STR \in tokens}}

\* C1: after the identifier pass the values of a row's RXCUI cell are, as a
\* set, exactly the RXCUI codes of all rxnorm rows whose STR equals one of the
\* row's candidate tokens; rows that share a STR all contribute, and no code
\* comes from a partial match.
C1_ExactIdentifiers ==
    \A i \in 1..Len(drugnames) :
        Resolved(i) =>
            LET ids == CodesNamed(RowTokens(drugnames[i]))
            IN  IF ids = {} THEN drugnames[i].RXCUI = NoRxcui
                ELSE Range(CellValues(drugnames[i].RXCUI)) = ids

\* a resolved row that holds the codes of two rxnorm rows with the same STR,
\* while another rxnorm row, whose STR no token equals, contributes nothing
C1_Witness ==
    \E i \in 1..Len(drugnames) :
        /\ Resolved(i)
        /\ \E j, k \in 1..Len(rxnorm) :
            /\ rxnorm[j].STR = rxnorm[k].STR
            /\ rxnorm[j].RXCUI # rxnorm[k].RXCUI
            /\ rxnorm[j].STR \in RowTokens(drugnames[i])
            /\ {StrOfInt(rxnorm[j].RXCUI), StrOfInt(rxnorm[k].RXCUI)}
                   \subseteq Range(CellValues(drugnames[i].RXCUI))

\* C2: no value appears more than once in a row's RXCUI cell, also when a
\* token occurs twice among the row's tokens.  Stated for the rows all of
\* whose tokens are words, so that the empty token plays no part.
C2_NoDuplicateIdentifiers ==
    \A i \in 1..Len(drugnames) :
        Resolved(i) /\ <<>> \notin RowTokens(drugnames[i])
            => NoRepeats(CellValues(drugnames[i].RXCUI))

\* C3: after the identifier pass the RXCUI cell of a row is never empty, and
\* it is "0.0" exactly when none of the row's tokens equals the STR of any
\* rxnorm row.
C3_SentinelIffNoMatch ==
    \A i \in 1..Len(drugnames) :
        Resolved(i) =>
            /\ drugnames[i].RXCUI # <<>>
            /\ drugnames[i].RXCUI = NoRxcui
                   <=> \A k \in 1..Len(rxnorm) :
                           rxnorm[k].STR \notin RowTokens(drugnames[i])

\* a resolved row without any match in a table that is not empty
C3_Witness ==
    \E i \in 1..Len(drugnames) :
        /\ Resolved(i)
        /\ drugnames[i].RXCUI = NoRxcui
        /\ drugnames[i].drugname_generic # <<>>
        /\ rxnorm # <<>>

\* the slash-separated parts of the name d
Parts(d) == {TextUpTo(d, p, {"/"}) : p \in PartStarts(d)}

HasWord(seg) == \E k \in 1..Len(seg) : seg[k] # " "

\* the first whitespace-delimited word of a text that has one
FirstWord(seg) ==
    TextUpTo(seg, CHOOSE p \in 1..Len(seg) :
                      seg[p] # " " /\ \A k \in 1..(p - 1) : seg[k] = " ", {" "})

\* the name d has the form "A/B", and both A and B hold a word
TwoNames(d) ==
    /\ Cardinality({k \in 1..Len(d) : d[k] = "/"}) = 1
    /\ \A seg \in Parts(d) : HasWord(seg)

\* C4: a name of the form "A/B" produces exactly two lookup tokens: the
\* lowercased first whitespace-delimited word of A, then that of B.
C4_TwoTokensFirstWords ==
    pc = "rxcui" /\ idx > 1 =>
        \A c \in NameColumns :
            LET d == drugnames[idx - 1][c]
                slash == CHOOSE k \in 1..Len(d) : d[k] = "/"
            IN  TwoNames(d) =>
                    looked[c] = <<Lower(FirstWord(SubSeq(d, 1, slash - 1))),
                                  Lower(FirstWord(SubSeq(d, slash + 1, Len(d))))>>

\* C10: a row whose generic and brand names are both empty or made of
\* whitespace only resolves to "0.0", whatever the rxnorm table holds.
C10_EmptyNamesUnresolved ==
    \A i \in 1..Len(drugnames) :
        Resolved(i) /\ ~HasWord(drugnames[i].drugname_generic)
                    /\ ~HasWord(drugnames[i].drugname_brand)
            => drugnames[i].RXCUI = NoRxcui

----------------------------------------------------------------------------
(* The class pass.                                                         *)

ClassCells == {"drug_major_class", "dmc_name", "drug_class", "dc_name"}

\* the identifiers of row i: the values of its RXCUI cell without "0.0"
Identifiers(i) == Range(CellValues(drugnames[i].RXCUI)) \ {NoRxcui}

\* the puf rows whose identifier is among the identifiers of row i
Profiles(i) ==
    {k \in 1..Len(puf) : StrOfInt(puf[k].RXNORM_RXCUI) \in Identifiers(i)}

\* the class codes of row i in the column col of puf
CodesOf(i, col) == {puf[k][col] : k \in Profiles(i)}

\* the descriptions, in the class table, of the codes of the set codes
DescsOf(table, col, desc, codes) ==
    {table[k][desc] : k \in {j \in 1..Len(table) : table[j][col] \in codes}}

\* every code of the set codes has a row in the class table
Described(table, col, codes) ==
    \A c \in codes : \E k \in 1..Len(table) : table[k][col] = c

\* C5: a row whose RXCUI cell is "0.0" gets "0" in all four class cells,
\* whatever the puf table holds.
C5_SentinelHasNoClass ==
    \A i \in 1..Len(drugnames) :
        Classed(i) /\ drugnames[i].RXCUI = NoRxcui
            => \A c \in ClassCells : drugnames[i][c] = NoClass

\* C6: for a row with at least one matching puf row, the code cells hold
\* exactly the distinct codes of the matching puf rows, the name cells hold
\* exactly the distinct descriptions of those codes, and no cell lists a value
\* twice.  Stated for the rows all of whose codes have a description.
C6_DeduplicatedClasses ==
    \A i \in 1..Len(drugnames) :
        LET major == CodesOf(i, "DRUG_MAJOR_CLASS")
            minor == CodesOf(i, "DRUG_CLASS")
        IN  /\ Classed(i)
            /\ Profiles(i) # {}
            /\ Described(drug_major_class, "drug_major_class", major)
            /\ Described(drug_class, "drug_class", minor)
            => /\ Range(CellValues(drugnames[i].drug_major_class)) = major
               /\ Range(CellValues(drugnames[i].drug_class)) = minor
               /\ Range(CellValues(drugnames[i].dmc_name))
                      = DescsOf(drug_major_class, "drug_major_class",
                                "drug_major_class_desc", major)
               /\ Range(CellValues(drugnames[i].dc_name))
                      = DescsOf(drug_class, "drug_class", "drug_class_desc", minor)
               /\ \A c \in ClassCells : NoRepeats(CellValues(drugnames[i][c]))

\* C8: after the class pass none of the four class cells of a row is empty;
\* a cell whose set of codes or of descriptions is empty holds "0".  Stated
\* for the rows whose RXCUI cell holds identifiers, with class tables that
\* are not empty.
C8_ClassCellsNeverEmpty ==
    \A i \in 1..Len(drugnames) :
        LET major == CodesOf(i, "DRUG_MAJOR_CLASS")
            minor == CodesOf(i, "DRUG_CLASS")
        IN  /\ Classed(i)
            /\ drugnames[i].RXCUI # NoRxcui
            /\ drug_major_class # <<>>
            /\ drug_class # <<>>
            => /\ \A c \in ClassCells : drugnames[i][c] # <<>>
               /\ major = {} => drugnames[i].drug_major_class = NoClass
               /\ minor = {} => drugnames[i].drug_class = NoClass
               /\ DescsOf(drug_major_class, "drug_major_class",
                          "drug_major_class_desc", major) = {}
                      => drugnames[i].dmc_name = NoClass
               /\ DescsOf(drug_class, "drug_class", "drug_class_desc", minor) = {}
                      => drugnames[i].dc_name = NoClass

\* the codes of column col in the order in which they are first met while
\* going through the values of the RXCUI cell of row i
AsFirstMet(i, col) == Unique(ClassList(puf, CellValues(drugnames[i].RXCUI), col))

Ascending(xs) == \A k \in 1..(Len(xs) - 1) : StrLess(xs[k], xs[k + 1])

\* C9 as stated: a code cell with more than one value lists the codes in the
\* order in which they are first met while going through the row's
\* identifiers.
C9_FirstMetOrder ==
    \A i \in 1..Len(drugnames) :
        Classed(i) =>
            /\ Len(CellValues(drugnames[i].drug_major_class)) > 1
                   => CellValues(drugnames[i].drug_major_class)
                          = AsFirstMet(i, "DRUG_MAJOR_CLASS")
            /\ Len(CellValues(drugnames[i].drug_class)) > 1
                   => CellValues(drugnames[i].drug_class) = AsFirstMet(i, "DRUG_CLASS")

\* C9 as amended: a code cell with more than one value lists the codes in
\* ascending order, and the name cell lists the descriptions in the order of
\* the codes of the code cell.
C9_SortedOrder ==
    \A i \in 1..Len(drugnames) :
        Classed(i) =>
            /\ Len(CellValues(drugnames[i].drug_major_class)) > 1
                   => /\ Ascending(CellValues(drugnames[i].drug_major_class))
                      /\ drugnames[i].dmc_name
                             = Join("|", ClassNames(drug_major_class, "drug_major_class",
                                            "drug_major_class_desc",
                                            CellValues(drugnames[i].drug_major_class)))
            /\ Len(CellValues(drugnames[i].drug_class)) > 1
                   => /\ Ascending(CellValues(drugnames[i].drug_class))
                      /\ drugnames[i].dc_name
                             = Join("|", ClassNames(drug_class, "drug_class",
                                            "drug_class_desc",
                                            CellValues(drugnames[i].drug_class)))

\* a row whose major codes are first met in another order than the sorted
\* one, with two different descriptions in its name cell
C9_Witness ==
    \E i \in 1..Len(drugnames) :
        /\ Classed(i)
        /\ Len(CellValues(drugnames[i].drug_major_class)) > 1
        /\ CellValues(drugnames[i].drug_major_class) # AsFirstMet(i, "DRUG_MAJOR_CLASS")
        /\ Len(CellValues(drugnames[i].dmc_name)) > 1
        /\ NoRepeats(CellValues(drugnames[i].dmc_name))

----------------------------------------------------------------------------
(* The reference tables.                                                   *)

ReferenceFiles == {"rxnorm", "puf", "drug_major_class", "drug_class"}

\* no row has been read or processed
NothingProcessed == pc \in {"start", "aborted"} /\ drugnames = <<>>

====
